---- MODULE Spec2Model ----
(***************************************************************************)
(* A model of lutris' cooperative job scheduler (lutris/util/jobs.py:      *)
(* AsyncCall, ProcessManager, schedule_at_idle) and of the multi-source    *)
(* installer file (lutris/installer/installer_file.py: InstallerFile).     *)
(*                                                                         *)
(* JobSpec     : ProcessManager + AsyncCall worker threads + the control   *)
(*               thread's idle queue, with a second, cancelling thread.    *)
(* OutcomeSpec : the same system, over every way a work function can end.  *)
(* FileSpec    : one InstallerFile, driven from the control thread.        *)
(***************************************************************************)
EXTENDS Integers, Sequences, FiniteSets, TLC

VARIABLES
    active,     \* ProcessManager._active_processes : key -> job
    lock,       \* ProcessManager._process_lock : "free" or the holding thread
    jobs,       \* the AsyncCall objects created so far (a job is its index)
    idle,       \* the GLib main loop's scheduled one-shot callbacks, in order
    th,         \* the caller threads: position and locals of the running call
    last        \* the ProcessManager call that returned in the latest step, if one did

VARIABLES
    fstate,                       \* "none", "ok" (constructed) or "failed"
    sources,                      \* InstallerFile.sources
    active_source,                \* index into sources, 0 for None
    cache_source,                 \* index into sources, 0 for None
    user_source,                  \* InstallerFile._user_source (index)
    first_valid_download_source,  \* InstallerFile._first_valid_download_source
    url_override,                 \* InstallerFile._url_override
    multiple_sources,             \* InstallerFile._multiple_sources
    filename_set,                 \* whether InstallerFile._filename is non-empty
    flast                         \* the InstallerFile call of the latest step

VARIABLES
    run,           \* the worker thread inside run_speedtest / get_availability
    stop_request,  \* thread_namespace.stop_request of that worker: is it set
    transfers,     \* the Downloader objects speed_test started, in order
    fs             \* the paths that exist in the filesystem

VARIABLES
    file_meta,           \* InstallerFile._file_meta: the descriptor it was built from
    dest_file_override,  \* InstallerFile._dest_file_override
    copy                 \* the InstallerFile that copy() returned

jobVars == <<active, lock, jobs, idle, th, last>>

VARIABLES
    tasks,         \* the IdleTask of each schedule_at_idle call and its caller
    glib,          \* the sources attached to the GLib main context
    sources_lock,  \* InstallerFile._sources_lock: the thread holding it, or None
    readers        \* each thread's position in an operation on the sources

copyVars == <<file_meta, dest_file_override, copy>>

taskVars == <<tasks, glib>>

lockVars == <<sources_lock, readers>>

probeVars == <<run, stop_request, transfers, fs>>

fileVars == <<fstate, sources, active_source, cache_source, user_source,
              first_valid_download_source, url_override, multiple_sources,
              filename_set, flast>>

vars == <<active, lock, jobs, idle, th, last,
          fstate, sources, active_source, cache_source, user_source,
          first_valid_download_source, url_override, multiple_sources,
          filename_set, flast, run, stop_request, transfers, fs,
          file_meta, dest_file_override, copy, tasks, glib, sources_lock, readers>>

-----------------------------------------------------------------------------
(* Bounds and value universes                                              *)

\* number of AsyncCall objects ever created
MaxJobs == 2

None == "None"

\* the control thread (GLib main loop) and one other, cancelling, thread
Callers == {"ctl", "canc"}

\* names a caller passes to add_job (None: omitted)
UserNames == {"a"}

\* work functions
Funcs == {"f"}

\* whether add_job is given a callback
Callbacks == {TRUE}

\* values a work function returns / raises
Results == {"r1"}
Errors == {"e1"}
StopRequested == "StopRequested"

\* id(func): an int, written here as a value no str equals
Id(f) == "id_" \o f

IntKeys == {Id(f) : f \in Funcs}

\* str(name): a str stays itself, an int becomes a str, which is no int
Str(n) == IF n \in IntKeys THEN "str_" \o n ELSE n

Keys == UserNames \cup IntKeys

\* everything a caller can pass as a name to remove_job / __contains__
NameArgs == Keys \cup {Str(k) : k \in IntKeys}

Range(fn) == {fn[k] : k \in DOMAIN fn}

Drop(fn, k) == [x \in DOMAIN fn \ {k} |-> fn[x]]

EmptyMap == [x \in {} |-> 0]

IdleThread == [pc |-> "idle", key |-> None, send |-> TRUE, ref |-> 0, own |-> 0, snap |-> {}]

NoRet == [op |-> None, key |-> None, val |-> None, job |-> 0, snap |-> {}]

-----------------------------------------------------------------------------
(* AsyncCall                                                               *)

\* AsyncCall.__init__: a fresh stop_request Event, the thread started
NewJob(key, hasCb) ==
    [key |-> key, hasCb |-> hasCb, stop |-> FALSE, pc |-> "run",
     sawStop |-> FALSE, kind |-> None, val |-> None, result |-> None,
     error |-> None, escaped |-> FALSE, stopAtEnd |-> FALSE,
     calls |-> <<>>, rm |-> None]

\* An AsyncCall whose thread has ended and which nothing refers to any more
\* (not the map, not a scheduled callback, not a running call) can take no
\* further step; its record is dropped at the next step of the system.
Dead ==
    [key |-> None, hasCb |-> FALSE, stop |-> FALSE, pc |-> "dead",
     sawStop |-> FALSE, kind |-> None, val |-> None, result |-> None,
     error |-> None, escaped |-> FALSE, stopAtEnd |-> FALSE,
     calls |-> <<>>, rm |-> None]

IsDead(j) ==
    /\ jobs[j].pc = "exit"
    /\ j \notin Range(active)
    /\ \A i \in 1..Len(idle) : idle[i].job # j
    /\ \A t \in Callers : th[t].ref # j /\ th[t].own # j /\ j \notin th[t].snap

Sweep(nj) ==
    [j \in 1..Len(nj) |-> IF j <= Len(jobs) /\ IsDead(j) THEN Dead ELSE nj[j]]

\* a try/except that lets the error leave the thread
TargetOutcomeNoCatch(kind, v) ==
    IF kind = "return"
    THEN [result |-> v, error |-> None, escaped |-> FALSE]
    ELSE [result |-> None, error |-> None, escaped |-> TRUE]

\* AsyncCall.target, the try/except around self.function(): a returned value
\* is the result, any raised Exception (StopRequested is one) is the error
TargetOutcome(kind, v) ==
    IF kind = "return"
    THEN [result |-> v, error |-> None, escaped |-> FALSE]
    ELSE [result |-> None, error |-> v, escaped |-> FALSE]

\* the work function ends: it returns, raises, or a check_stop checkpoint
\* raises StopRequested (only when the stop token is set)
WorkEnd(j, kind, v) ==
    /\ j \in 1..Len(jobs)
    /\ UNCHANGED <<fileVars, probeVars, copyVars, taskVars, lockVars>>
    /\ jobs[j].pc = "run"
    /\ kind = "stop" => (jobs[j].stop /\ v = StopRequested)
    /\ kind = "return" => v \in Results
    /\ kind = "raise" => v \in Errors
    /\ LET o == TargetOutcome(kind, v) IN
       jobs' = Sweep([jobs EXCEPT ![j] = [@ EXCEPT
                    !.pc = IF o.escaped THEN "exit" ELSE "ended",
                    !.kind = kind, !.val = v, !.result = o.result,
                    !.error = o.error,
                    !.escaped = o.escaped, !.stopAtEnd = jobs[j].stop]])
    /\ last' = NoRet /\ UNCHANGED <<active, lock, idle, th>>

\* a target that never looks at the stop token
StopIsSetIgnored(j) == FALSE

\* self.stop_request.is_set(), read without the map lock
StopIsSet(j) == jobs[j].stop

\* AsyncCall.target: `if not self.stop_request.is_set():`
TargetReadStop(j) ==
    /\ j \in 1..Len(jobs)
    /\ UNCHANGED <<fileVars, probeVars, copyVars, taskVars, lockVars>>
    /\ jobs[j].pc = "ended"
    /\ jobs' = Sweep([jobs EXCEPT ![j] = [@ EXCEPT
                    !.sawStop = StopIsSet(j),
                    !.pc = IF StopIsSet(j) THEN "exit" ELSE "sched"]])
    /\ last' = NoRet /\ UNCHANGED <<active, lock, idle, th>>

\* schedule_at_idle with result and error exchanged
\* schedule_at_idle(self.callback, result, error): the source GLib will run
IdleTaskOf(j) == [job |-> j, r |-> jobs[j].result, e |-> jobs[j].error]

\* AsyncCall.target: `self.callback_task = schedule_at_idle(...)`
TargetSchedule(j) ==
    /\ j \in 1..Len(jobs)
    /\ UNCHANGED <<fileVars, probeVars, copyVars, taskVars, lockVars>>
    /\ jobs[j].pc = "sched"
    /\ idle' = Append(idle, IdleTaskOf(j))
    /\ jobs' = Sweep([jobs EXCEPT ![j] = [@ EXCEPT !.pc = "exit"]])
    /\ last' = NoRet /\ UNCHANGED <<active, lock, th>>

-----------------------------------------------------------------------------
(* ProcessManager                                                          *)

\* ProcessManager.__contains__
Contains(name) == name \in DOMAIN active

\* add_job without the `name in self._active_processes` test
AddJobNoCheck(t, f, cb, n) ==
    LET key == IF n = None THEN Id(f) ELSE n IN
    /\ th[t].pc = "idle"
    /\ UNCHANGED <<fileVars, probeVars, copyVars, taskVars, lockVars>>
    /\ lock = "free"
    /\ Len(jobs) < MaxJobs
    /\ jobs' = Sweep(Append(jobs, NewJob(key, cb)))
    /\ active' = [x \in DOMAIN active \cup {key} |->
                     IF x = key THEN Len(jobs) + 1 ELSE active[x]]
    /\ last' = [NoRet EXCEPT !.op = "add_job", !.key = key, !.val = Str(key),
                              !.job = Len(jobs) + 1]
    /\ UNCHANGED <<lock, idle, th>>

\* ProcessManager.add_job: the whole call; the test, the AsyncCall's creation
\* (which starts the thread) and the insertion happen under the lock
AddJob(t, f, cb, n) ==
    LET key == IF n = None THEN Id(f) ELSE n IN
    /\ th[t].pc = "idle"
    /\ UNCHANGED <<fileVars, probeVars, copyVars, taskVars, lockVars>>
    /\ lock = "free"
    /\ IF Contains(key)
       THEN /\ last' = [NoRet EXCEPT !.op = "add_job", !.key = key, !.val = None]
            /\ active' = active /\ jobs' = Sweep(jobs)
       ELSE /\ Len(jobs) < MaxJobs
            /\ jobs' = Sweep(Append(jobs, NewJob(key, cb)))
            /\ active' = [x \in DOMAIN active \cup {key} |->
                             IF x = key THEN Len(jobs) + 1 ELSE active[x]]
            /\ last' = [NoRet EXCEPT !.op = "add_job", !.key = key,
                                      !.val = Str(key), !.job = Len(jobs) + 1]
    /\ UNCHANGED <<lock, idle, th>>

\* who took the job out of the map: its own callback, or a cancellation
\* with or without a stop request
RemovalKind(send, own, j) ==
    IF own = j THEN "self" ELSE IF send THEN "cancel" ELSE "nostop"

\* ProcessManager.remove_job: `with self._process_lock:` up to the `del`,
\* or `return False` when the name is not in the map
RemoveJobLocked(t, k, send, own) ==
    /\ lock = "free"
    /\ UNCHANGED <<fileVars, probeVars, copyVars, taskVars, lockVars>>
    /\ IF Contains(k)
       THEN LET j == active[k] IN
            /\ active' = Drop(active, k)
            /\ lock' = t
            /\ jobs' = Sweep([jobs EXCEPT ![j] = [@ EXCEPT !.rm = RemovalKind(send, own, j)]])
            /\ th' = [th EXCEPT ![t] = [IdleThread EXCEPT !.pc = "rj_set",
                                           !.key = k, !.ref = j, !.send = send]]
            /\ last' = NoRet
       ELSE /\ last' = [NoRet EXCEPT !.op = "remove_job", !.key = k,
                                      !.val = "False"]
            /\ th' = [th EXCEPT ![t] = IdleThread]
            /\ jobs' = Sweep(jobs) /\ UNCHANGED <<active, lock>>
    /\ UNCHANGED idle

\* a caller's remove_job(name, send_stop_request), from its entry
CallRemoveJob(t, k, send) ==
    /\ th[t].pc = "idle"
    /\ RemoveJobLocked(t, k, send, 0)

\* add_job's _callback: `self.remove_job(name)` after the user's callback
CallbackRemoveJob ==
    /\ th["ctl"].pc = "cb_rm"
    /\ RemoveJobLocked("ctl", jobs[th["ctl"].own].key, TRUE, th["ctl"].own)

\* a remove_job that forgets the stop request
RemoveJobSetNoStop(t) ==
    /\ th[t].pc = "rj_set"
    /\ UNCHANGED <<fileVars, probeVars, copyVars, taskVars, lockVars>>
    /\ lock = t
    /\ jobs' = Sweep(jobs)
    /\ lock' = "free"
    /\ last' = [NoRet EXCEPT !.op = "remove_job", !.key = th[t].key,
                              !.val = "ref", !.job = th[t].ref]
    /\ th' = [th EXCEPT ![t] = IdleThread]
    /\ UNCHANGED <<active, idle>>

\* ProcessManager.remove_job: `_ref.stop_request.set()` when asked, the
\* lock's release and `return _ref`
RemoveJobSet(t) ==
    /\ th[t].pc = "rj_set"
    /\ UNCHANGED <<fileVars, probeVars, copyVars, taskVars, lockVars>>
    /\ lock = t
    /\ jobs' = Sweep([jobs EXCEPT ![th[t].ref] = [@ EXCEPT !.stop = @ \/ th[t].send]])
    /\ lock' = "free"
    /\ last' = [NoRet EXCEPT !.op = "remove_job", !.key = th[t].key,
                              !.val = "ref", !.job = th[t].ref]
    /\ th' = [th EXCEPT ![t] = IdleThread]
    /\ UNCHANGED <<active, idle>>

\* ProcessManager.remove_jobs: `if len(self._active_processes) > 0:`, read
\* without the lock
RemoveJobsCheck(t) ==
    /\ th[t].pc = "idle"
    /\ UNCHANGED <<fileVars, probeVars, copyVars, taskVars, lockVars>>
    /\ IF DOMAIN active = {}
       THEN /\ last' = [NoRet EXCEPT !.op = "remove_jobs"]
            /\ UNCHANGED th
       ELSE /\ th' = [th EXCEPT ![t] = [IdleThread EXCEPT !.pc = "rjs_lock",
                                           !.snap = Range(active)]]
            /\ last' = NoRet
    /\ jobs' = Sweep(jobs) /\ UNCHANGED <<active, lock, idle>>

\* a remove_jobs that clears the map and sends no stop request
RemoveJobsLockedNoStop(t) ==
    /\ th[t].pc = "rjs_lock"
    /\ UNCHANGED <<fileVars, probeVars, copyVars, taskVars, lockVars>>
    /\ lock = "free"
    /\ jobs' = Sweep([j \in 1..Len(jobs) |->
                   IF j \in Range(active)
                   THEN [jobs[j] EXCEPT !.rm = "cancel"]
                   ELSE jobs[j]])
    /\ active' = EmptyMap
    /\ last' = [NoRet EXCEPT !.op = "remove_jobs", !.snap = th[t].snap]
    /\ th' = [th EXCEPT ![t] = IdleThread]
    /\ UNCHANGED <<lock, idle>>

\* ProcessManager.remove_jobs: under the lock, every job of the map gets its
\* stop request, then the map is cleared
RemoveJobsLocked(t) ==
    /\ th[t].pc = "rjs_lock"
    /\ UNCHANGED <<fileVars, probeVars, copyVars, taskVars, lockVars>>
    /\ lock = "free"
    /\ jobs' = Sweep([j \in 1..Len(jobs) |->
                   IF j \in Range(active)
                   THEN [jobs[j] EXCEPT !.stop = TRUE, !.rm = "cancel"]
                   ELSE jobs[j]])
    /\ active' = EmptyMap
    /\ last' = [NoRet EXCEPT !.op = "remove_jobs", !.snap = th[t].snap]
    /\ th' = [th EXCEPT ![t] = IdleThread]
    /\ UNCHANGED <<lock, idle>>

\* The control thread runs the next scheduled callback: schedule_at_idle's
\* wrapper calls add_job's _callback(r, e), which calls the user's callback
\* (when one was given) and then self.remove_job(name).  A user callback that
\* raises ends _callback there.
IdleRun(cbRaises) ==
    /\ th["ctl"].pc = "idle"
    /\ UNCHANGED <<fileVars, probeVars, copyVars, taskVars, lockVars>>
    /\ idle # <<>>
    /\ LET task == Head(idle)
           j == task.job
           raised == cbRaises /\ jobs[j].hasCb
       IN
       /\ idle' = Tail(idle)
       /\ jobs' = Sweep([jobs EXCEPT ![j] = [@ EXCEPT
                     !.calls = IF jobs[j].hasCb
                               THEN Append(@, <<task.r, task.e>>) ELSE @]])
       /\ th' = [th EXCEPT !["ctl"] =
                     IF raised THEN IdleThread
                     ELSE [IdleThread EXCEPT !.pc = "cb_rm", !.own = j]]
    /\ last' = NoRet /\ UNCHANGED <<active, lock>>

-----------------------------------------------------------------------------
JobInit ==
    /\ active = EmptyMap
    /\ lock = "free"
    /\ jobs = <<>>
    /\ idle = <<>>
    /\ th = [t \in Callers |-> IdleThread]
    /\ last = NoRet

\* One step of the scheduler and its threads.  The control thread submits
\* jobs, cancels and runs the scheduled callbacks; the cancelling thread calls
\* remove_job(name) and remove_jobs(); every job has its worker thread.
JobStep(names, kinds, sends) ==
    \/ \E f \in Funcs, cb \in Callbacks, n \in names : AddJob("ctl", f, cb, n)
    \/ \E k \in NameArgs, send \in sends : CallRemoveJob("ctl", k, send)
    \/ \E k \in NameArgs : CallRemoveJob("canc", k, TRUE)
    \/ CallbackRemoveJob
    \/ \E t \in Callers : RemoveJobSet(t)
    \/ \E t \in Callers : RemoveJobsCheck(t)
    \/ \E t \in Callers : RemoveJobsLocked(t)
    \/ \E b \in BOOLEAN : IdleRun(b)
    \/ \E j \in 1..MaxJobs, kind \in kinds,
          v \in Results \cup Errors \cup {StopRequested} : WorkEnd(j, kind, v)
    \/ \E j \in 1..MaxJobs : TargetReadStop(j)
    \/ \E j \in 1..MaxJobs : TargetSchedule(j)

\* names given or omitted; the work returns or is stopped at a checkpoint;
\* remove_job is called with its default arguments
JobNext == JobStep(UserNames \cup {None}, {"return", "stop"}, {TRUE})

\* names given; the work returns, raises, or is stopped at a checkpoint;
\* remove_job is called with and without a stop request
OutcomeNext == JobStep(UserNames, {"return", "raise", "stop"}, BOOLEAN)

-----------------------------------------------------------------------------
(* InstallerFile and its sources                                           *)

MaxSources == 4

RecursionLimit == 6

\* URLs, by the parts the code looks at
Url(scheme, domain, path) == [scheme |-> scheme, domain |-> domain, path |-> path]

UrlA == Url("http", "a.test", "/f")

UrlA2 == Url("http", "a.test", "/g")

UrlB == Url("http", "b.test", "/f")

UrlArchive == Url("http", "web.archive.org", "/f")

UrlSteam == Url("$STEAM", "", "")

UrlUser == Url("N/A", "", "")

UrlFtp == Url("ftp", "c.test", "/f")

UrlCacheFile == Url("", "", "/cache/f")

UrlFile == Url("file", "", "/data/f")

restricted_domains == {"archive.org"}

\* str.endswith over the domains of the model
EndsWith(domain, suffix) == domain = suffix \/ domain = "web." \o suffix

restricted_domains_contain(url) ==
    IF url.scheme # "http" THEN FALSE
    ELSE \E r \in restricted_domains : EndsWith(url.domain, r)

\* source ids that start with the character '|'
PipeIds == {"|init", "|auto_available", "|p"}

Source(id, cls, url, temporary, connected) ==
    [source_id |-> id, cls |-> cls, url |-> url,
     available |-> None,
     speed |-> IF cls = "SourceDownload" THEN None ELSE "False",
     error |-> None, error_code |-> None,
     temporary |-> temporary, connected |-> connected]

\* the class _new_source picks for a URL
new_source_class(url) ==
    IF url.scheme = "$STEAM" THEN "SourceSteam"
    ELSE IF url.scheme = "N/A" THEN "SourceUser"
    ELSE IF url.scheme \in {"http", "file"} THEN "SourceDownload"
    ELSE "ValueError"

new_source(url, source_id) ==
    Source(source_id, new_source_class(url), url, FALSE,
           new_source_class(url) = "SourceDownload")

IdsOf(srcs) == [i \in 1..Len(srcs) |-> srcs[i].source_id]

ByClass(srcs, cls) == {i \in 1..Len(srcs) : srcs[i].cls = cls}

First(S) == CHOOSE i \in S : \A k \in S : i <= k

\* the loop computes new_id, the function returns source_id
unique_id(source_id, id_list) ==
    LET stripped == IF source_id \in PipeIds THEN "" ELSE source_id
    IN  IF stripped = "" THEN "source" ELSE stripped


\* A descriptor: a bare URL or a dict with "url" (form "url"), or a dict of
\* per-source dicts (form "multi"), with or without a "filename"
Entry(key, url) == [key |-> key, url |-> url]

Desc(form, filename, entries) ==
    [form |-> form, filename |-> filename, entries |-> entries]

Descs ==
    { Desc("url", FALSE, <<Entry("1", UrlA)>>),
      Desc("url", FALSE, <<Entry("1", UrlArchive)>>),
      Desc("url", FALSE, <<Entry("1", UrlSteam)>>),
      Desc("url", FALSE, <<Entry("1", UrlUser)>>),
      Desc("url", FALSE, <<Entry("1", UrlFtp)>>),
      Desc("multi", TRUE, <<Entry("a", UrlA), Entry("b", UrlB)>>),
      Desc("multi", FALSE, <<Entry("a", UrlA), Entry("b", UrlB)>>),
      Desc("multi", TRUE, <<Entry("arc", UrlArchive), Entry("a", UrlA)>>),
      Desc("multi", TRUE, <<Entry("a", UrlA), Entry("s", UrlSteam)>>),
      Desc("multi", TRUE, <<Entry("|init", UrlA), Entry("s", UrlSteam)>>),
      Desc("multi", TRUE, <<Entry("|init", UrlA), Entry("b", UrlB)>>),
      Desc("multi", TRUE, <<Entry("user", UrlA), Entry("a2", UrlA2)>>),
      Desc("multi", TRUE, <<Entry("tempcache", UrlB)>>) }

RECURSIVE read_entries(_, _)
read_entries(entries, acc) ==
    IF entries = <<>> THEN acc
    ELSE LET e == Head(entries)
             used_ids == IdsOf(acc)
             id == IF used_ids = <<>> THEN e.key ELSE unique_id(e.key, used_ids)
         IN  read_entries(Tail(entries), Append(acc, new_source(e.url, id)))

\* _read_sources_from_file; pga is has_valid_custom_cache_path()
read_sources_from_file(d, pga) ==
    LET read == IF d.form = "url" THEN <<new_source(d.entries[1].url, "1")>>
                ELSE read_entries(d.entries, <<>>)
        withUser ==
            IF ByClass(read, "SourceUser") # {} THEN read
            ELSE Append(read, Source(unique_id("user", IdsOf(read)), "SourceUser",
                                     UrlUser, FALSE, FALSE))
        external == {i \in 1..Len(withUser) : withUser[i].cls # "SourceUser"}
    IN  IF \E i \in 1..Len(read) : read[i].cls = "ValueError"
        THEN [err |-> "ValueError", sources |-> <<>>, multiple |-> FALSE]
        ELSE IF pga
        THEN [err |-> "AttributeError", sources |-> <<>>, multiple |-> FALSE]
        ELSE [err |-> None, sources |-> withUser,
              multiple |-> Cardinality(external) > 1]

\* the InstallerFile object as one value
File ==
    [sources |-> sources, active_source |-> active_source,
     cache_source |-> cache_source, user_source |-> user_source,
     first_valid_download_source |-> first_valid_download_source,
     url_override |-> url_override, multiple_sources |-> multiple_sources,
     filename_set |-> filename_set]

NoFile ==
    [sources |-> <<>>, active_source |-> 0, cache_source |-> 0,
     user_source |-> 0, first_valid_download_source |-> 0,
     url_override |-> None, multiple_sources |-> FALSE, filename_set |-> FALSE]

SetFile(f) ==
    /\ sources' = f.sources
    /\ active_source' = f.active_source
    /\ cache_source' = f.cache_source
    /\ user_source' = f.user_source
    /\ first_valid_download_source' = f.first_valid_download_source
    /\ url_override' = f.url_override
    /\ multiple_sources' = f.multiple_sources
    /\ filename_set' = f.filename_set

\* the exception raised by reading the filename property, if any
filename_error(f) ==
    IF f.multiple_sources
    THEN IF f.filename_set THEN None ELSE "ScriptingError"
    ELSE IF Len(f.sources) = 1 THEN "NameError"
    ELSE IF \A i \in 1..Len(f.sources) : f.sources[i].cls = "SourceUser"
    THEN "AttributeError"
    ELSE None

Unrestricted(f) ==
    {i \in ByClass(f.sources, "SourceDownload") :
        ~restricted_domains_contain(f.sources[i].url)}


Ok(f) == [f |-> f, err |-> None]

Raise(f, e) == [f |-> f, err |-> e]

url_override_drops_selection(f, url) ==
    [f EXCEPT !.url_override = url, !.active_source = 0]

url_override_ignores_none(f, url) ==
    IF url = None THEN f ELSE [f EXCEPT !.url_override = url]

\* url_override(url): only the override changes
set_url_override(f, url) == [f EXCEPT !.url_override = url]

\* url: the override when it is a non-empty string, else the url of the active
\* source (reading it with no active source raises)
file_url(f) ==
    IF f.url_override \notin {None, ""} THEN f.url_override
    ELSE IF f.active_source = 0 THEN "AttributeError"
    ELSE f.sources[f.active_source].url

RECURSIVE select_source(_, _, _)

reselect_from_init(f, source_id, depth) == select_source(f, "|init", depth - 1)

\* the requested source is the active one: nothing to do
reselect(f, source_id, depth) == Ok(f)

\* "|init": the cache source, else the first Steam source, else the first
\* unrestricted download (the first download if all are restricted), else
\* the user source
select_init(f, depth) ==
    LET steam == ByClass(f.sources, "SourceSteam")
        downloads == ByClass(f.sources, "SourceDownload")
        user == f.sources[f.user_source].source_id
    IN  IF f.cache_source # 0
        THEN select_source(f, f.sources[f.cache_source].source_id, depth - 1)
        ELSE IF Len(f.sources) > 1
        THEN IF steam # {}
             THEN select_source(f, f.sources[First(steam)].source_id, depth - 1)
             ELSE IF downloads # {}
             THEN LET pick == IF Unrestricted(f) # {} THEN First(Unrestricted(f))
                              ELSE First(downloads)
                  IN  select_source(
                          [f EXCEPT !.first_valid_download_source = pick],
                          f.sources[pick].source_id, depth - 1)
             ELSE select_source(f, user, depth - 1)
        ELSE select_source(f, user, depth - 1)

\* "|auto_available": the first unrestricted download; with none, the read of
\* self._sources raises
select_auto_available(f, depth) ==
    IF Unrestricted(f) # {}
    THEN select_source(f, f.sources[First(Unrestricted(f))].source_id, depth - 1)
    ELSE Raise(f, "AttributeError")

select_concrete_unknown_raises(f, source_id, depth) ==
    LET matching == {i \in 1..Len(f.sources) : f.sources[i].source_id = source_id}
    IN  IF matching = {} THEN Raise(f, "IndexError")
        ELSE LET g == [f EXCEPT !.active_source = First(matching)]
             IN  Raise(g, filename_error(g))

\* a concrete id: unknown ids fall back to "|init"; the first source with the
\* id becomes active, then the log line reads the filename
select_concrete(f, source_id, depth) ==
    LET matching == {i \in 1..Len(f.sources) : f.sources[i].source_id = source_id}
    IN  IF matching = {} THEN select_source(f, "|init", depth - 1)
        ELSE LET g == [f EXCEPT !.active_source = First(matching)]
             IN  Raise(g, filename_error(g))

\* depth is the room left on the interpreter's call stack
select_source(f, source_id, depth) ==
    IF depth = 0 THEN Raise(f, "RecursionError")
    ELSE LET g == set_url_override(f, None)
         IN  IF g.active_source # 0
                /\ g.sources[g.active_source].source_id = source_id
             THEN reselect(g, source_id, depth)
             ELSE IF source_id = "|init" THEN select_init(g, depth)
             ELSE IF source_id = "|auto_available" THEN select_auto_available(g, depth)
             ELSE select_concrete(g, source_id, depth)

Providers == {"download", "steam", "user", "pga", "gog"}

change_provider(f, new_provider) ==
    IF new_provider = "download"
    THEN IF f.first_valid_download_source = 0 THEN Raise(f, "AttributeError")
         ELSE select_source(f, f.sources[f.first_valid_download_source].source_id,
                            RecursionLimit)
    ELSE IF new_provider = "steam"
    THEN IF ByClass(f.sources, "SourceSteam") = {} THEN Raise(f, "IndexError")
         ELSE select_source(
                  f, f.sources[First(ByClass(f.sources, "SourceSteam"))].source_id,
                  RecursionLimit)
    ELSE IF new_provider = "user"
    THEN select_source(f, f.sources[f.user_source].source_id, RecursionLimit)
    ELSE IF new_provider = "pga"
    THEN IF f.cache_source # 0
         THEN select_source(f, f.sources[f.cache_source].source_id, RecursionLimit)
         ELSE Raise(f, "ValueError")
    ELSE Raise(f, "TypeError")

\* providers: steam with a Steam source, pga with a cache source, user always,
\* download with a Download source
providers(f) ==
    (IF ByClass(f.sources, "SourceSteam") # {} THEN {"steam"} ELSE {})
        \cup (IF f.cache_source # 0 THEN {"pga"} ELSE {})
        \cup {"user"}
        \cup (IF ByClass(f.sources, "SourceDownload") # {} THEN {"download"} ELSE {})

\* default_provider: by the class of the active source
default_provider(f) ==
    LET cls == IF f.active_source = 0 THEN None
               ELSE f.sources[f.active_source].cls
    IN  IF cls = "SourceCache" THEN "pga"
        ELSE IF cls = "SourceSteam" THEN "steam"
        ELSE IF cls = "SourceUser" THEN "user"
        ELSE IF ByClass(f.sources, "SourceDownload") # {} THEN "download"
        ELSE "ValueError"

\* add_source: a second cache source is refused; the id goes through
\* _unique_id and the source is appended
add_source(f, source) ==
    IF source.cls = "SourceCache" /\ f.cache_source # 0 THEN Raise(f, "ValueError")
    ELSE Ok([f EXCEPT !.sources =
                Append(@, [source EXCEPT
                              !.source_id = unique_id(@, IdsOf(f.sources))])])

\* _add_cached, run on the control thread after a probe downloaded the file
add_cached(f) ==
    LET new == Source(unique_id("tempcache", IdsOf(f.sources)), "SourceCache",
                      UrlCacheFile, TRUE, FALSE)
        added == add_source(f, new)
    IN  IF added.err # None THEN added
        ELSE Ok([added.f EXCEPT !.cache_source = Len(added.f.sources)])


\* the network of the model: what a probe of a URL finds
MeasuredSpeed == "speed"

SpeedtestFails == {UrlB, UrlArchive}

Unavailable == {UrlA, UrlArchive}

\* on_speed_measured: the other downloads on the same domain take the speed
on_speed_measured(f, url, speed) ==
    [f EXCEPT !.sources =
        [i \in 1..Len(@) |->
            IF /\ @[i].cls = "SourceDownload"
               /\ @[i].url.domain = url.domain
               /\ @[i].url # url
            THEN [@[i] EXCEPT !.speed = speed] ELSE @[i]]]

\* the handlers of a source's "new-speed-measured"
speed_handlers(f, i, speed) ==
    IF f.sources[i].connected THEN on_speed_measured(f, f.sources[i].url, speed)
    ELSE f

speed_signals(f, i) ==
    IF f.sources[i].connected
    THEN {"new-speed-measured", "federate-speed-measured"}
    ELSE {"new-speed-measured"}

\* speed_test._success, run on the control thread
speed_success(f, i, speed) ==
    speed_handlers([f EXCEPT !.sources[i].speed = speed], i, speed)

\* speed_test._error, run on the control thread
speed_error(f, i, speed, error, error_code) ==
    speed_handlers(
        [f EXCEPT !.sources[i].speed = "False",
                  !.sources[i].available = IF @ = "True" THEN "False" ELSE @,
                  !.sources[i].error = error,
                  !.sources[i].error_code = error_code],
        i, speed)

\* get_availability._change, run on the control thread
availability_change(f, i, availability) ==
    [f EXCEPT !.sources[i].available = availability]

\* url_override logs "Overriding URL" when it replaces an override by another
\* value
override_log(old, new) ==
    IF old \notin {new, None} THEN {"Overriding URL"} ELSE {}

NoCall ==
    [op |-> None, arg |-> None, err |-> None, emit |-> {}, again |-> FALSE,
     log |-> {}]

Call(op, arg, err, emit) ==
    [op |-> op, arg |-> arg, err |-> err, emit |-> emit,
     again |-> op = "select_source" /\ flast.op = op /\ flast.arg = arg,
     log |-> override_log(url_override, url_override')]

FileInit ==
    /\ fstate = "none"
    /\ sources = <<>>
    /\ active_source = 0
    /\ cache_source = 0
    /\ user_source = 0
    /\ first_valid_download_source = 0
    /\ url_override = None
    /\ multiple_sources = FALSE
    /\ filename_set = FALSE
    /\ flast = NoCall

\* InstallerFile(game_slug, file_id, file_meta)
new_file(d, pga) ==
    LET read == read_sources_from_file(d, pga)
        f == [NoFile EXCEPT
                 !.sources = read.sources,
                 !.multiple_sources = read.multiple,
                 !.filename_set = d.filename,
                 !.user_source = First(ByClass(read.sources, "SourceUser"))]
    IN  IF read.err # None THEN Raise(NoFile, read.err)
        ELSE select_source(f, "|init", RecursionLimit)

Construct(d, pga) ==
    /\ fstate = "none"
    /\ file_meta' = d
    /\ LET selected == new_file(d, pga)
       IN  /\ fstate' = IF selected.err = None THEN "ok" ELSE "failed"
           /\ SetFile(IF selected.err = None THEN selected.f ELSE NoFile)
           /\ flast' = Call("init", None, selected.err, {})
    /\ UNCHANGED <<jobVars, probeVars, dest_file_override, copy, taskVars, lockVars>>

\* the reserved ids and an id no source has
SelectArgs == {"|init", "|auto_available", "nope"}

\* every id a source of the model can have
SourceIds ==
    {"1", "a", "b", "arc", "s", "a2", "user", "|init", "source", "pga", "tempcache",
     "u"}

SelectSource(source_id) ==
    /\ fstate = "ok"
    /\ source_id \in SelectArgs \cup Range(IdsOf(sources))
    /\ LET r == select_source(File, source_id, RecursionLimit)
       IN  SetFile(r.f) /\ flast' = Call("select_source", source_id, r.err, {})
    /\ UNCHANGED <<fstate, jobVars, probeVars, copyVars, taskVars, lockVars>>

ChangeProvider(new_provider) ==
    /\ fstate = "ok"
    /\ LET r == change_provider(File, new_provider)
       IN  SetFile(r.f) /\ flast' = Call("change_provider", new_provider, r.err, {})
    /\ UNCHANGED <<fstate, jobVars, probeVars, copyVars, taskVars, lockVars>>

\* the URLs given to url_override
OverrideUrls == {"http://mirror.test/f"}

UrlOverride(url) ==
    /\ fstate = "ok"
    /\ SetFile(set_url_override(File, url))
    /\ flast' = Call("url_override", url, None, {})
    /\ UNCHANGED <<fstate, jobVars, probeVars, copyVars, taskVars, lockVars>>

NewSources ==
    { Source("1", "SourceDownload", UrlB, FALSE, FALSE),
      Source("|p", "SourceSteam", UrlSteam, FALSE, FALSE),
      Source("pga", "SourceCache", UrlCacheFile, FALSE, FALSE),
      Source("u", "SourceUser", UrlUser, FALSE, FALSE) }

AddSource(source) ==
    /\ fstate = "ok"
    /\ Len(sources) < MaxSources
    /\ LET r == add_source(File, source)
       IN  SetFile(r.f) /\ flast' = Call("add_source", source.source_id, r.err, {})
    /\ UNCHANGED <<fstate, jobVars, probeVars, copyVars, taskVars, lockVars>>

AddCached ==
    /\ fstate = "ok"
    /\ Len(sources) < MaxSources
    /\ LET r == add_cached(File)
       IN  SetFile(r.f) /\ flast' = Call("_add_cached", None, r.err, {})
    /\ UNCHANGED <<fstate, jobVars, probeVars, copyVars, taskVars, lockVars>>

SpeedSuccess(i) ==
    /\ fstate = "ok"
    /\ i \in ByClass(sources, "SourceDownload")
    /\ sources[i].url \notin SpeedtestFails
    /\ SetFile(speed_success(File, i, MeasuredSpeed))
    /\ flast' = Call("_success", None, None, speed_signals(File, i))
    /\ UNCHANGED <<fstate, jobVars, probeVars, copyVars, taskVars, lockVars>>

SpeedError(i) ==
    /\ fstate = "ok"
    /\ i \in ByClass(sources, "SourceDownload")
    /\ sources[i].url \in SpeedtestFails
    /\ SetFile(speed_error(File, i, MeasuredSpeed, "error", "code"))
    /\ flast' = Call("_error", None, None, speed_signals(File, i))
    /\ UNCHANGED <<fstate, jobVars, probeVars, copyVars, taskVars, lockVars>>

AvailabilityChange(i) ==
    /\ fstate = "ok"
    /\ i \in ByClass(sources, "SourceDownload")
    /\ SetFile(availability_change(
                   File, i, IF sources[i].url \in Unavailable THEN "False" ELSE "True"))
    /\ flast' = Call("_change", None, None, {})
    /\ UNCHANGED <<fstate, jobVars, probeVars, copyVars, taskVars, lockVars>>

\* the file's own "new-speed-measured", connected to on_speed_measured by the
\* constructor: a measurement of a URL that arrives from another file
OnSpeedMeasured(url) ==
    /\ fstate = "ok"
    /\ SetFile(on_speed_measured(File, url, MeasuredSpeed))
    /\ flast' = Call("on_speed_measured", url, None, {})
    /\ UNCHANGED <<fstate, jobVars, probeVars, copyVars, taskVars, lockVars>>

\* the files whose speeds are measured, and a Download source added later
SpeedDescs ==
    { Desc("url", FALSE, <<Entry("1", UrlA)>>),
      Desc("multi", TRUE, <<Entry("a", UrlA), Entry("b", UrlB)>>),
      Desc("multi", TRUE, <<Entry("a", UrlA), Entry("a2", UrlA2)>>),
      Desc("multi", TRUE, <<Entry("a", UrlA), Entry("a2", UrlA2),
                            Entry("b", UrlB)>>) }

SpeedSources == { Source("x", "SourceDownload", UrlA2, FALSE, FALSE) }

SpeedUrls == {UrlA, UrlA2, UrlB, UrlArchive}

SpeedNext ==
    \/ \E d \in SpeedDescs : Construct(d, FALSE)
    \/ \E s \in SpeedSources : AddSource(s)
    \/ \E i \in 1..MaxSources : SpeedSuccess(i)
    \/ \E i \in 1..MaxSources : SpeedError(i)
    \/ \E u \in SpeedUrls : OnSpeedMeasured(u)

-----------------------------------------------------------------------------
(* The probe run: run_speedtest / get_availability on a worker thread, the *)
(* transfers it starts, and the control thread running what it scheduled   *)

\* number of polls of speed_test before its 2.5 s window has closed
Window == 2

\* InstallerFile.dest_file, download_file (dest_file + ".tmp") and the
\* directory prepare creates
DestFile == UrlCacheFile.path

DownloadFile == DestFile \o ".tmp"

CacheDir == "/cache"

\* the string of a URL
url_string(url) ==
    IF url.scheme \in {"http", "file", "ftp"}
    THEN url.scheme \o "://" \o url.domain \o url.path
    ELSE url.scheme \o url.path

\* str[7:]
slice7(str) == SubSeq(str, 8, Len(str))

\* InstallerFileSource.available: the stored value of a Download source, the
\* check of the file for a Cache or a User source, None for a Steam source
available(source, files) ==
    IF source.cls \in {"SourceCache", "SourceUser"}
    THEN IF slice7(url_string(source.url)) \in files THEN "True" ELSE "False"
    ELSE source.available

\* available_downloads: the sources that get_sources_by_value("available",
\* True) returns
available_downloads(f, files) ==
    Cardinality({i \in 1..Len(f.sources) : available(f.sources[i], files) = "True"})

\* is_ready(provider)
is_ready(f, provider, files) ==
    IF provider = "download" THEN available_downloads(f, files) > 0
    ELSE provider \notin {"user", "pga"} \/ DestFile \in files

\* SourceUser.url = path: a path without "file://" gets the prefix
set_user_url(f, path) ==
    [f EXCEPT !.sources[f.user_source].url = Url("file", "", path)]

\* the paths a user picks
UserFiles == {"/data/f", "/data/g"}

\* the user picks a file for the User source
SetUserUrl(path) ==
    /\ fstate = "ok"
    /\ SetFile(set_user_url(File, path))
    /\ flast' = Call("set_user_url", path, None, {})
    /\ UNCHANGED <<fstate, jobVars, probeVars, copyVars, taskVars, lockVars>>

\* a file appears in the filesystem
FileAppears(path) ==
    /\ path \notin fs
    /\ fs' = fs \cup {path}
    /\ UNCHANGED <<jobVars, fileVars, copyVars, taskVars, lockVars, run,
                   stop_request, transfers>>

ReadyNext ==
    \/ \E d \in SpeedDescs : Construct(d, FALSE)
    \/ \E i \in 1..MaxSources : AvailabilityChange(i)
    \/ \E p \in UserFiles : SetUserUrl(p)
    \/ \E p \in UserFiles \cup {DestFile} : FileAppears(p)
    \/ AddCached

\* bool(value) of a speed or an availability
truthy(value) == value \notin {None, "False"}

\* sorted(S) for a set of indexes
Ordered(S) ==
    [k \in 1..Cardinality(S) |->
        CHOOSE x \in S : Cardinality({y \in S : y < x}) = k - 1]

NoRun ==
    [op |-> None, pc |-> "idle", list |-> <<>>, i |-> 0, force |-> FALSE,
     polls |-> 0, temp |-> None, deleted |-> FALSE, ret |-> FALSE,
     brk |-> FALSE, err |-> None]

\* a scheduled call: schedule_at_idle(fn, arg), fn bound to source src
Task(fn, src, arg) == [fn |-> fn, src |-> src, arg |-> arg]

\* Downloader(url=source.url, speedtest=True).start()
Transfer(src) ==
    [source |-> src, state |-> "running", full |-> FALSE, error |-> None,
     error_code |-> None]

\* Downloader.cancel()
cancel(ts, t) ==
    IF ts[t].state = "running" THEN [ts EXCEPT ![t].state = "cancelled"] ELSE ts

ProbeInit ==
    /\ run = NoRun
    /\ stop_request = FALSE
    /\ transfers = <<>>
    /\ fs = {}

workerFrame == <<active, lock, jobs, th, last, fileVars, copyVars, taskVars,
                 lockVars>>

\* run_speedtest(overwrite_existing) called on a worker thread: the
\* processing-start notification and the list of Download sources
StartSpeedtest(overwrite_existing) ==
    /\ fstate = "ok"
    /\ run.pc = "idle"
    /\ idle' = Append(idle, Task("emit", 0, "processing-start"))
    /\ run' = [NoRun EXCEPT !.op = "run_speedtest", !.pc = "enter",
                            !.list = Ordered(ByClass(sources, "SourceDownload")),
                            !.i = 1, !.force = overwrite_existing]
    /\ UNCHANGED <<workerFrame, stop_request, transfers, fs>>

\* get_availability(all_files) called on a worker thread
StartAvailability(all_files) ==
    /\ fstate = "ok"
    /\ run.pc = "idle"
    /\ idle' = Append(idle, Task("emit", 0, "processing-start"))
    /\ run' = [NoRun EXCEPT !.op = "get_availability", !.pc = "enter",
                            !.list = Ordered(ByClass(sources, "SourceDownload")),
                            !.i = 1, !.force = all_files]
    /\ UNCHANGED <<workerFrame, stop_request, transfers, fs>>

\* the for statement and the first check of check_stop: past the last source
\* the run schedules processing-stop; StopRequested ends the run silently
LoopEnter ==
    /\ run.pc = "enter"
    /\ IF run.i > Len(run.list)
       THEN /\ idle' = Append(idle, Task("emit", 0, "processing-stop"))
            /\ run' = [run EXCEPT !.pc = "done"]
       ELSE /\ idle' = idle
            /\ run' = [run EXCEPT !.pc = IF stop_request THEN "done" ELSE "body"]
    /\ UNCHANGED <<workerFrame, stop_request, transfers, fs>>

\* run_speedtest, loop body: skip a source that has a speed, else speed_test
\* starts its Downloader
SpeedtestBody ==
    /\ run.pc = "body"
    /\ run.op = "run_speedtest"
    /\ LET src == run.list[run.i]
       IN  IF ~run.force /\ truthy(sources[src].speed)
           THEN /\ run' = [run EXCEPT !.pc = "exit", !.brk = FALSE]
                /\ transfers' = transfers
           ELSE /\ run' = [run EXCEPT !.pc = "poll", !.polls = Window,
                                      !.temp = None, !.deleted = FALSE]
                /\ transfers' = Append(transfers, Transfer(src))
    /\ UNCHANGED <<workerFrame, idle, stop_request, fs>>

\* get_availability, loop body: skip an available source, else check the URL
\* and schedule _change with what was found; for a file:// URL the result of
\* os.path.exists is returned and nothing is scheduled
AvailabilityBody ==
    /\ run.pc = "body"
    /\ run.op = "get_availability"
    /\ LET src == run.list[run.i]
       IN  IF ~run.force /\ truthy(sources[src].available)
           THEN idle' = idle
           ELSE IF sources[src].url.scheme = "file"
           THEN idle' = idle
           ELSE idle' = Append(idle, Task("_change", src,
                                          IF sources[src].url \in Unavailable
                                          THEN "False" ELSE "True"))
    /\ run' = [run EXCEPT !.pc = "exit", !.brk = FALSE]
    /\ UNCHANGED <<workerFrame, stop_request, transfers, fs>>

\* speed_test: the while test and the first check of check_stop.  When the
\* window has closed the probe is only logged; StopRequested cancels the
\* transfer
Poll ==
    /\ run.pc = "poll"
    /\ IF run.polls = 0
       THEN /\ run' = [run EXCEPT !.pc = "returned", !.temp = None]
            /\ transfers' = transfers
       ELSE IF stop_request
       THEN /\ run' = [run EXCEPT !.pc = "returned", !.temp = None]
            /\ transfers' = cancel(transfers, Len(transfers))
       ELSE /\ run' = [run EXCEPT !.pc = "poll_body"]
            /\ transfers' = transfers
    /\ UNCHANGED <<workerFrame, idle, stop_request, fs>>

\* speed_test: the state of the Downloader is read; a final state schedules
\* _success or _error, deletes _speedtest and returns
PollBody ==
    /\ run.pc = "poll_body"
    /\ LET t == transfers[Len(transfers)]
       IN  IF t.state = "completed"
           THEN /\ idle' = Append(idle, Task("_success", t.source, MeasuredSpeed))
                /\ run' = [run EXCEPT !.pc = "poll_exit", !.ret = TRUE,
                                      !.deleted = TRUE,
                                      !.temp = IF t.full THEN "memfile" ELSE None]
           ELSE IF t.state \in {"cancelled", "error"}
           THEN /\ idle' = Append(idle, Task("_error", t.source,
                                               [speed |-> MeasuredSpeed,
                                                error |-> t.error,
                                                error_code |-> t.error_code]))
                /\ run' = [run EXCEPT !.pc = "poll_exit", !.ret = TRUE,
                                      !.deleted = TRUE, !.temp = None]
           ELSE /\ idle' = idle
                /\ run' = [run EXCEPT !.pc = "poll_exit", !.ret = FALSE]
    /\ UNCHANGED <<workerFrame, stop_request, transfers, fs>>

\* speed_test: the second check of check_stop.  The handler of StopRequested
\* calls _speedtest.cancel(): after del _speedtest that raises
\* UnboundLocalError, which nothing up to the caller of the run catches
PollExit ==
    /\ run.pc = "poll_exit"
    /\ IF stop_request
       THEN IF run.deleted
            THEN /\ run' = [run EXCEPT !.pc = "done", !.err = "UnboundLocalError"]
                 /\ transfers' = transfers
            ELSE /\ run' = [run EXCEPT !.pc = "returned", !.temp = None]
                 /\ transfers' = cancel(transfers, Len(transfers))
       ELSE /\ transfers' = transfers
            /\ IF run.ret THEN run' = [run EXCEPT !.pc = "returned"]
               ELSE run' = [run EXCEPT !.pc = "poll", !.polls = @ - 1]
    /\ UNCHANGED <<workerFrame, idle, stop_request, fs>>

\* run_speedtest after speed_test returned: a memfile, with no cache source
\* yet, schedules prepare and _add_cached, and ends the loop
Returned ==
    /\ run.pc = "returned"
    /\ IF run.temp = "memfile"
       THEN /\ idle' = IF cache_source = 0
                       THEN idle \o <<Task("prepare", 0, None),
                                      Task("_add_cached", 0, "memfile")>>
                       ELSE idle
            /\ run' = [run EXCEPT !.pc = "exit", !.brk = TRUE]
       ELSE /\ idle' = idle
            /\ run' = [run EXCEPT !.pc = "exit", !.brk = FALSE]
    /\ UNCHANGED <<workerFrame, stop_request, transfers, fs>>

\* the second check of check_stop in the loop of the run, then the next
\* source, or processing-stop after a break
LoopExit ==
    /\ run.pc = "exit"
    /\ IF stop_request
       THEN idle' = idle /\ run' = [run EXCEPT !.pc = "done"]
       ELSE IF run.brk
       THEN /\ idle' = Append(idle, Task("emit", 0, "processing-stop"))
            /\ run' = [run EXCEPT !.pc = "done"]
       ELSE idle' = idle /\ run' = [run EXCEPT !.pc = "enter", !.i = @ + 1]
    /\ UNCHANGED <<workerFrame, stop_request, transfers, fs>>

\* the transfer engine: a running transfer completes, in part or in full, or
\* fails
TransferEnds(t, state, full) ==
    /\ t \in 1..Len(transfers)
    /\ transfers[t].state = "running"
    /\ transfers' = [transfers EXCEPT ![t] =
                            [@ EXCEPT !.state = state, !.full = full,
                                      !.error = IF state = "error" THEN "error"
                                                ELSE None,
                                      !.error_code = IF state = "error" THEN "code"
                                                     ELSE None]]
    /\ UNCHANGED <<jobVars, fileVars, copyVars, taskVars, lockVars, run, stop_request, fs>>

\* remove_job / remove_jobs set the stop request of the worker's job
SetStop ==
    /\ run.pc \notin {"idle", "done"}
    /\ ~stop_request
    /\ stop_request' = TRUE
    /\ UNCHANGED <<jobVars, fileVars, copyVars, taskVars, lockVars, run, transfers, fs>>

\* SourceCache.__init__ with a memfile: save_memfile writes the tmpfile (an
\* error is only logged), os.rename moves it to the destination
save_and_rename(files) ==
    IF CacheDir \in files THEN [fs |-> files \cup {DestFile}, err |-> None]
    ELSE [fs |-> files, err |-> "FileNotFoundError"]

\* the control thread runs the first scheduled call; _change schedules the
\* emission of "new-availability-measured"
RunScheduled ==
    /\ idle # <<>>
    /\ idle' = IF Head(idle).fn = "_change"
               THEN Append(Tail(idle), Task("emit", Head(idle).src,
                                            "new-availability-measured"))
               ELSE Tail(idle)
    /\ LET task == Head(idle)
           saved == save_and_rename(fs)
           r == IF task.fn = "_success"
                THEN Ok(speed_success(File, task.src, task.arg))
                ELSE IF task.fn = "_error"
                THEN Ok(speed_error(File, task.src, task.arg.speed,
                                    task.arg.error, task.arg.error_code))
                ELSE IF task.fn = "_change"
                THEN Ok(availability_change(File, task.src, task.arg))
                ELSE IF task.fn = "_add_cached"
                THEN IF saved.err # None THEN Raise(File, saved.err)
                     ELSE add_cached(File)
                ELSE Ok(File)
       IN  /\ SetFile(r.f)
           /\ flast' = Call(task.fn, None, r.err,
                            IF task.fn \in {"_success", "_error"}
                            THEN speed_signals(File, task.src) ELSE {})
           /\ fs' = IF task.fn = "prepare" THEN fs \cup {CacheDir}
                    ELSE IF task.fn = "_add_cached" THEN saved.fs
                    ELSE fs
    /\ UNCHANGED <<active, lock, jobs, th, last, fstate, run, stop_request,
                   transfers, copyVars, taskVars, lockVars>>

\* the descriptors of the probed files
ProbeDescs ==
    { Desc("url", FALSE, <<Entry("1", UrlA)>>),
      Desc("multi", TRUE, <<Entry("a", UrlA), Entry("b", UrlB)>>),
      Desc("multi", TRUE, <<Entry("a", UrlA), Entry("l", UrlFile)>>) }

ProbeNext ==
    \/ \E d \in ProbeDescs : Construct(d, FALSE)
    \/ \E o \in BOOLEAN : StartSpeedtest(o)
    \/ \E a \in BOOLEAN : StartAvailability(a)
    \/ LoopEnter
    \/ SpeedtestBody
    \/ AvailabilityBody
    \/ Poll
    \/ PollBody
    \/ PollExit
    \/ Returned
    \/ LoopExit
    \/ \E t \in 1..MaxSources, full \in BOOLEAN : TransferEnds(t, "completed", full)
    \/ \E t \in 1..MaxSources, state \in {"cancelled", "error"} :
          TransferEnds(t, state, FALSE)
    \/ SetStop
    \/ RunScheduled

-----------------------------------------------------------------------------
(* check_hash                                                              *)

\* the "checksum" the descriptors of the model give: "sha256:deadbeef" for
\* http://a.test/f and none for the other URLs
checksum(source) ==
    IF source.url = UrlA /\ source.cls = "SourceDownload" THEN "sha256:deadbeef"
    ELSE None

\* checksum.split(":", 1)[1]
expected_hash(str) ==
    LET colon == CHOOSE k \in 1..Len(str) :
                     /\ SubSeq(str, k, k) = ":"
                     /\ \A j \in 1..(k - 1) : SubSeq(str, j, j) # ":"
    IN  SubSeq(str, colon + 1, Len(str))

\* what system.get_file_checksum can compute for the destination file
Hashes == {"deadbeef", "0badf00d"}

check_hash_accepts_mismatch(f, calculated_hash) == Ok(f)

\* InstallerFile.check_hash: the destination is read, then the active source
\* compares; ScriptingError is not imported where it is raised
check_hash(f, calculated_hash) ==
    LET source == f.sources[f.active_source]
    IN  IF filename_error(f) # None THEN Raise(f, filename_error(f))
        ELSE IF checksum(source) = None THEN Ok(f)
        ELSE IF calculated_hash # expected_hash(checksum(source))
        THEN Raise(f, "NameError")
        ELSE Ok(f)

CheckHash(calculated_hash) ==
    /\ fstate = "ok"
    /\ LET r == check_hash(File, calculated_hash)
       IN  SetFile(r.f) /\ flast' = Call("check_hash", calculated_hash, r.err, {})
    /\ UNCHANGED <<fstate, jobVars, probeVars, copyVars, taskVars, lockVars>>

HashNext ==
    \/ \E d \in Descs : Construct(d, FALSE)
    \/ \E x \in SelectArgs \cup SourceIds : SelectSource(x)
    \/ \E p \in Providers : ChangeProvider(p)
    \/ AddCached
    \/ \E c \in Hashes : CheckHash(c)

-----------------------------------------------------------------------------
(* copy(): a second InstallerFile built from the same descriptor            *)

\* a copy whose sources attribute is the very list object of the original
copy_shares_sources(f, meta, dest) ==
    [made |-> TRUE, shared |-> TRUE, file |-> f, dest_file_override |-> dest]

\* copy(): a new InstallerFile from the same _file_meta (new source objects in
\* a new list, "|init" selected), then the override fields are assigned
copy_file(f, meta, dest) ==
    [made |-> TRUE, shared |-> FALSE,
     file |-> [new_file(meta, FALSE).f EXCEPT !.url_override = f.url_override],
     dest_file_override |-> dest]

\* the copy as a caller sees it: its sources attribute dereferenced
CopyFile ==
    [copy.file EXCEPT !.sources = IF copy.shared THEN sources ELSE @]

\* writes the fields of the copy; a list shared with the original is written
\* in place
SetCopy(f) ==
    /\ copy' = [copy EXCEPT !.file = f]
    /\ sources' = IF copy.shared THEN f.sources ELSE sources
    /\ UNCHANGED <<fstate, active_source, cache_source, user_source,
                   first_valid_download_source, url_override, multiple_sources,
                   filename_set, flast, file_meta, dest_file_override,
                   jobVars, probeVars, taskVars, lockVars>>

CopyInit ==
    /\ file_meta = Desc("url", FALSE, <<>>)
    /\ dest_file_override = None
    /\ copy = [made |-> FALSE, shared |-> FALSE, file |-> NoFile,
               dest_file_override |-> None]

Copy ==
    /\ fstate = "ok"
    /\ copy' = copy_file(File, file_meta, dest_file_override)
    /\ UNCHANGED <<fileVars, jobVars, probeVars, file_meta, dest_file_override,
                   taskVars, lockVars>>

\* f.dest_file = value
SetDestFile(value) ==
    /\ fstate = "ok"
    /\ dest_file_override' = value
    /\ UNCHANGED <<fileVars, jobVars, probeVars, file_meta, copy, taskVars,
                   lockVars>>

CopySelectSource(source_id) ==
    /\ copy.made
    /\ source_id \in SelectArgs \cup Range(IdsOf(CopyFile.sources))
    /\ SetCopy(select_source(CopyFile, source_id, RecursionLimit).f)

CopyUrlOverride(url) ==
    /\ copy.made
    /\ SetCopy(set_url_override(CopyFile, url))

CopyAddSource(source) ==
    /\ copy.made
    /\ Len(CopyFile.sources) < MaxSources
    /\ SetCopy(add_source(CopyFile, source).f)

\* c.dest_file = value
CopySetDestFile(value) ==
    /\ copy.made
    /\ copy' = [copy EXCEPT !.dest_file_override = value]
    /\ UNCHANGED <<fileVars, jobVars, probeVars, file_meta, dest_file_override,
                   taskVars, lockVars>>

\* a url-form and a multi-source descriptor; on the original and on the copy:
\* select_source, url_override, add_source of a Download and of a Cache
\* source, and the assignment of a destination
CopyNext ==
    \/ \E d \in { Desc("url", FALSE, <<Entry("1", UrlA)>>),
                  Desc("multi", TRUE, <<Entry("a", UrlA), Entry("s", UrlSteam)>>) } :
          Construct(d, FALSE)
    \/ Copy
    \/ \E x \in SelectArgs \cup SourceIds : SelectSource(x) \/ CopySelectSource(x)
    \/ \E u \in OverrideUrls : UrlOverride(u) \/ CopyUrlOverride(u)
    \/ \E s \in { Source("1", "SourceDownload", UrlB, FALSE, FALSE),
                  Source("pga", "SourceCache", UrlCacheFile, FALSE, FALSE) } :
          AddSource(s) \/ CopyAddSource(s)
    \/ \E v \in {"/games/f"} : SetDestFile(v) \/ CopySetDestFile(v)

FileNext ==
    \/ \E d \in Descs, pga \in BOOLEAN : Construct(d, pga)
    \/ \E x \in SelectArgs \cup SourceIds : SelectSource(x)
    \/ \E p \in Providers : ChangeProvider(p)
    \/ \E u \in OverrideUrls : UrlOverride(u)
    \/ \E s \in NewSources : AddSource(s)
    \/ AddCached
    \/ \E i \in 1..MaxSources : AvailabilityChange(i)

-----------------------------------------------------------------------------
(* IdleTask and schedule_at_idle, one IdleTask per call                     *)

\* calls of schedule_at_idle
MaxTasks == 2

\* executions of one scheduled function that are counted
MaxRuns == 2

\* calls of unschedule() on one IdleTask
MaxUnschedule == 2

\* IdleTask(), with the caller's position in schedule_at_idle (pc), the id
\* that GLib.timeout_add returned to it (id), whether func raises, and the
\* calls made so far; a source_id of 0 is None (GLib's ids are positive)
NewTask ==
    [pc |-> "none", source_id |-> 0, is_completed |-> FALSE, id |-> 0,
     raises |-> FALSE, runs |-> 0, unscheduled |-> 0, cancelled |-> FALSE]

is_connected(task) == task.source_id # 0

connect(task, source_id) ==
    IF ~task.is_completed THEN [task EXCEPT !.source_id = source_id] ELSE task

disconnect(task) == [task EXCEPT !.source_id = 0]

\* a wrapper that asks GLib to keep the source
wrapper_returns_true(raises) == "True"

\* what the main loop gets from wrapper: False after func returned; when func
\* raises, the finally clause runs and the exception leaves the callback
wrapper(raises) == IF raises THEN "exception" ELSE "False"

\* GLib.source_remove(id): detaches the source; an id that names no source is
\* reported and nothing is removed
source_remove(g, id) ==
    IF id \in g.sources THEN [g EXCEPT !.sources = @ \ {id}]
    ELSE [g EXCEPT !.not_found = @ + 1]

TaskInit ==
    /\ tasks = [k \in 1..MaxTasks |-> NewTask]
    /\ glib = [next_id |-> 1, sources |-> {}, not_found |-> 0]

\* schedule_at_idle up to the return of GLib.timeout_add / GLib.idle_add
ScheduleAtIdle(k, raises) ==
    /\ tasks[k].pc = "none"
    /\ \A j \in 1..(k - 1) : tasks[j].pc # "none"
    /\ tasks' = [tasks EXCEPT ![k] = [@ EXCEPT !.pc = "added",
                                               !.id = glib.next_id,
                                               !.raises = raises]]
    /\ glib' = [glib EXCEPT !.next_id = @ + 1, !.sources = @ \cup {glib.next_id}]
    /\ UNCHANGED <<jobVars, fileVars, probeVars, copyVars, lockVars>>

\* task.connect(source_id); return task
ReturnTask(k) ==
    /\ tasks[k].pc = "added"
    /\ tasks' = [tasks EXCEPT ![k] = [connect(@, @.id) EXCEPT !.pc = "returned"]]
    /\ UNCHANGED <<glib, jobVars, fileVars, probeVars, copyVars, lockVars>>

\* the main loop dispatches the source of task k: wrapper runs func and
\* disconnects the task; the source stays attached only when wrapper returned
\* True
Dispatch(k) ==
    /\ tasks[k].id \in glib.sources
    /\ tasks' = [tasks EXCEPT ![k] =
                    [disconnect(@) EXCEPT
                        !.runs = IF @ < MaxRuns THEN @ + 1 ELSE @]]
    /\ glib' = IF wrapper(tasks[k].raises) = "True" THEN glib
               ELSE [glib EXCEPT !.sources = @ \ {tasks[k].id}]
    /\ UNCHANGED <<jobVars, fileVars, probeVars, copyVars, lockVars>>

\* task.unschedule(), by the holder of the returned task
Unschedule(k) ==
    /\ tasks[k].pc = "returned"
    /\ tasks[k].unscheduled < MaxUnschedule
    /\ LET task == [tasks[k] EXCEPT !.unscheduled = @ + 1,
                                    !.cancelled = @ \/ tasks[k].runs = 0]
       IN  IF is_connected(task)
           THEN /\ glib' = source_remove(glib, task.source_id)
                /\ tasks' = [tasks EXCEPT ![k] = disconnect(task)]
           ELSE /\ glib' = glib
                /\ tasks' = [tasks EXCEPT ![k] = task]
    /\ UNCHANGED <<jobVars, fileVars, probeVars, copyVars, lockVars>>

IdleNext ==
    \/ \E k \in 1..MaxTasks, raises \in BOOLEAN : ScheduleAtIdle(k, raises)
    \/ \E k \in 1..MaxTasks : ReturnTask(k) \/ Dispatch(k) \/ Unschedule(k)

-----------------------------------------------------------------------------
(* The sources lock of an InstallerFile                                     *)

\* the control thread and a worker thread
Threads == {"ctl", "w1"}

Section(lock_taken, released, rw) ==
    [lock |-> lock_taken, release |-> released, rw |-> rw]

\* the steps of an operation that touch self.sources or self._sources_lock, in
\* order: whether the step is inside `with self._sources_lock`, whether the
\* lock is released at its end, and what it does to the list.
\* add_source: _unique_id reads the ids with get_values_from_sources, then the
\* append; select_source of a source id: get_values_from_sources, then
\* get_sources_by_value; filename and has_no_sources read self.sources
\* directly; download_sources_available calls get_sources_by_class inside its
\* own `with self._sources_lock`
sections(op) ==
    CASE op = "add_source" ->
            <<Section(TRUE, TRUE, "read"), Section(TRUE, TRUE, "write")>>
      [] op = "get_sources_by_class" -> <<Section(TRUE, TRUE, "read")>>
      [] op = "select_source" ->
            <<Section(TRUE, TRUE, "read"), Section(TRUE, TRUE, "read")>>
      [] op = "filename" -> <<Section(FALSE, FALSE, "read")>>
      [] op = "has_no_sources" -> <<Section(FALSE, FALSE, "read")>>
      [] op = "download_sources_available" ->
            <<Section(TRUE, FALSE, "none"), Section(TRUE, TRUE, "read")>>

LockOps ==
    {"add_source", "get_sources_by_class", "select_source", "filename",
     "has_no_sources", "download_sources_available"}

\* a thread at step i of op: waiting for the lock, or at the list
Enter(op, i) ==
    [op |-> op, i |-> i, pc |-> IF sections(op)[i].lock THEN "wait" ELSE "access"]

LockInit ==
    /\ sources_lock = None
    /\ readers = [t \in Threads |-> [op |-> None, i |-> 0, pc |-> "idle"]]

Adding == {t \in Threads : readers[t].op = "add_source"}

\* thread t calls op on the file
Begin(t, op) ==
    /\ fstate = "ok"
    /\ readers[t].pc = "idle"
    /\ op = "add_source" => Len(sources) + Cardinality(Adding) < MaxSources
    /\ readers' = [readers EXCEPT ![t] = Enter(op, 1)]
    /\ UNCHANGED <<sources_lock, jobVars, fileVars, probeVars, copyVars, taskVars>>

\* Lock.acquire(): the lock is not reentrant
Acquire(t) ==
    /\ readers[t].pc = "wait"
    /\ sources_lock = None
    /\ sources_lock' = t
    /\ readers' = [readers EXCEPT ![t].pc = "access"]
    /\ UNCHANGED <<jobVars, fileVars, probeVars, copyVars, taskVars>>

\* thread t finishes its step: the append of add_source is made, the lock is
\* released at the end of a `with` block, and the next step or the return
\* follows
Leave(t) ==
    /\ readers[t].pc = "access"
    /\ LET op == readers[t].op
           i == readers[t].i
           sec == sections(op)[i]
           new == Source("1", "SourceDownload", UrlB, FALSE, FALSE)
       IN  /\ SetFile(IF sec.rw = "write" THEN add_source(File, new).f ELSE File)
           /\ sources_lock' = IF sec.lock /\ sec.release THEN None
                              ELSE sources_lock
           /\ readers' = [readers EXCEPT ![t] =
                             IF i < Len(sections(op)) THEN Enter(op, i + 1)
                             ELSE [op |-> None, i |-> 0, pc |-> "idle"]]
    /\ UNCHANGED <<fstate, flast, jobVars, probeVars, copyVars, taskVars>>

LockNext ==
    \/ \E d \in ProbeDescs : Construct(d, FALSE)
    \/ \E t \in Threads, op \in LockOps : Begin(t, op)
    \/ \E t \in Threads : Acquire(t) \/ Leave(t)

Init == JobInit /\ FileInit /\ ProbeInit /\ CopyInit /\ TaskInit /\ LockInit

JobSpec == Init /\ [][JobNext]_vars

OutcomeSpec == Init /\ [][OutcomeNext]_vars

FileSpec == Init /\ [][FileNext]_vars

ProbeSpec == Init /\ [][ProbeNext]_vars

\* the worker thread keeps running and the main loop runs what is scheduled
ProbeFairSpec ==
    /\ ProbeSpec
    /\ WF_vars(LoopEnter \/ SpeedtestBody \/ AvailabilityBody \/ Poll \/ PollBody
                    \/ PollExit \/ Returned \/ LoopExit)
    /\ WF_vars(RunScheduled)

SpeedSpec == Init /\ [][SpeedNext]_vars

ReadySpec == Init /\ [][ReadyNext]_vars

HashSpec == Init /\ [][HashNext]_vars

CopySpec == Init /\ [][CopyNext]_vars

LockSpec == Init /\ [][LockNext]_vars

\* the main loop dispatches every source that stays attached
IdleSpec ==
    Init /\ [][IdleNext]_vars /\ \A k \in 1..MaxTasks : WF_vars(Dispatch(k))

-----------------------------------------------------------------------------
(* Properties of the job scheduler                                         *)

JobIds == 1..Len(jobs)

Pending(j) == \E i \in 1..Len(idle) : idle[i].job = j

\* a cancellation of job j (remove_job with a stop request, or remove_jobs)
\* has returned
CancelReturned(j) ==
    /\ jobs[j].rm = "cancel"
    /\ \A t \in Callers : ~(th[t].pc = "rj_set" /\ th[t].ref = j)

\* C1: while a job named n is in the map, add_job with the name n returns
\* None, starts no thread and leaves the map entry and its stop token as they
\* are; a started job that nobody removed is still the map's entry for its
\* name, so the map never holds two jobs under one name.
C1_DuplicateNameRejected ==
    [][/\ \A f \in Funcs, cb \in Callbacks, n \in UserNames \cup {None} :
            LET key == IF n = None THEN Id(f) ELSE n IN
            (Contains(key) /\ AddJob("ctl", f, cb, n)) =>
                /\ last'.val = None
                /\ Len(jobs') = Len(jobs)
                /\ active' = active
                /\ jobs'[active[key]] = jobs[active[key]]
       /\ \A j \in 1..Len(jobs') :
            (jobs'[j].pc # "dead" /\ jobs'[j].rm = None) =>
                (jobs'[j].key \in DOMAIN active' /\ active'[jobs'[j].key] = j)
      ]_vars

\* C1 witness: an add_job was rejected while its name was in the map
C1_Witness ==
    /\ last.op = "add_job"
    /\ last.val = None
    /\ last.key \in DOMAIN active

\* C2 (as claimed): once a cancellation of a job has returned, the job's
\* callback is not executed any more.
C2_CancelledNeverCalled ==
    [][\A j \in JobIds :
          CancelReturned(j) => Len(jobs'[j].calls) <= Len(jobs[j].calls)]_vars

\* C3: a job whose stop token was set before its work function ended (by
\* return, by an error, or by StopRequested at a checkpoint) has no callback
\* scheduled and none run.
C3_StopBeforeEndNoCallback ==
    \A j \in JobIds :
        jobs[j].stopAtEnd =>
            /\ jobs[j].calls = <<>>
            /\ ~Pending(j)
            /\ jobs[j].pc # "sched"

\* C3 witness: a job stopped at a checkpoint has left its thread
C3_Witness ==
    \E j \in JobIds :
        jobs[j].stopAtEnd /\ jobs[j].kind = "stop" /\ jobs[j].pc = "exit"

\* C4: with the lock free, every job taken out of the map by a remove_job
\* called with its default arguments has its stop token set; remove_job
\* returns the job it removed, which was the entry of the given name.
C4_RemoveJobAtomic ==
    /\ lock = "free" =>
          \A j \in JobIds : jobs[j].rm \in {"self", "cancel"} => jobs[j].stop
    /\ (last.op = "remove_job" /\ last.val = "ref") =>
          /\ last.job \notin Range(active)
          /\ jobs[last.job].rm # None
          /\ jobs[last.job].key = last.key

\* C4 witness: a caller's remove_job(name) has returned the job
C4_Witness ==
    /\ last.op = "remove_job"
    /\ last.val = "ref"
    /\ jobs[last.job].rm = "cancel"
    /\ jobs[last.job].pc = "run"

\* C5: when remove_jobs returns, every job that was in the map when it was
\* called is out of the map with its stop token set (unless a concurrent
\* remove_job(name, send_stop_request=False) took it out), and no job in the
\* map has an unset stop token.
C5_RemoveJobsStopsAll ==
    last.op = "remove_jobs" =>
        /\ \A j \in last.snap :
              /\ j \notin Range(active)
              /\ jobs[j].stop \/ jobs[j].rm = "nostop"
        /\ \A j \in Range(active) : jobs[j].stop

\* C5 witness: remove_jobs has returned after clearing a map of two jobs
C5_Witness ==
    /\ last.op = "remove_jobs"
    /\ Cardinality(last.snap) >= 2
    /\ \A j \in last.snap : jobs[j].rm = "cancel"

\* the (result, error) the callback is to get for what the work did
ExpectedArgs(j) ==
    IF jobs[j].kind = "return" THEN <<jobs[j].val, None>> ELSE <<None, jobs[j].val>>

\* C6: no error leaves the worker thread; the callback is called at most
\* once, with (result, None) after a return and (None, error) after a raised
\* error; a job found unstopped when its work ended has had its callback
\* called exactly once as soon as it is no longer scheduled.
C6_CallbackGetsOutcome ==
    \A j \in JobIds :
        /\ ~jobs[j].escaped
        /\ Len(jobs[j].calls) <= 1
        /\ \A i \in 1..Len(jobs[j].calls) : jobs[j].calls[i] = ExpectedArgs(j)
        /\ (jobs[j].pc = "exit" /\ ~jobs[j].sawStop /\ jobs[j].hasCb /\ ~Pending(j))
              => Len(jobs[j].calls) = 1

\* C6 witness: the callback of a job whose work raised has been called
C6_Witness ==
    \E j \in JobIds :
        jobs[j].kind = "raise" /\ jobs[j].calls = <<(<<None, "e1">>)>>

\* C7 (as claimed): once the callback of a job that was never cancelled has
\* run on the control thread, returning or failing, the job is out of the map.
C7_FinishedJobLeavesMap ==
    \A j \in JobIds :
        (/\ jobs[j].calls # <<>>
         /\ jobs[j].rm \in {None, "self"}
         /\ th["ctl"].own # j
         /\ ~(th["ctl"].pc = "rj_set" /\ th["ctl"].ref = j))
        => j \notin Range(active)

\* C8 (as claimed): the value a successful add_job returns is the name under
\* which remove_job and __contains__ find the job just submitted.
C8_ReturnedNameFindsJob ==
    (last.op = "add_job" /\ last.val # None) =>
        (Contains(last.val) /\ active[last.val] = last.job)

-----------------------------------------------------------------------------
(* Properties of InstallerFile                                             *)

OwnedIds == Range(IdsOf(sources))

\* C9: once an InstallerFile is constructed, whatever select_source (with a
\* concrete, unknown or reserved id, failing or not), add_source,
\* change_provider and the probes' control-thread updates did since,
\* active_source is not None and is one of the file's sources.
C9_ActiveSourceOwned ==
    fstate = "ok" => active_source \in 1..Len(sources)

\* a probe added the cache source, and a select_source("|auto_available")
\* ended in an error
C9_Witness ==
    /\ fstate = "ok"
    /\ cache_source # 0
    /\ flast.op = "select_source"
    /\ flast.arg = "|auto_available"
    /\ flast.err = "AttributeError"
    /\ active_source \in 1..Len(sources)

\* C10: for an id x that a source of the file has, a select_source(x) that
\* directly follows a select_source(x) changes neither active_source, nor
\* the URL override, nor the sources, and emits no signal.
C10_SelectTwiceIdempotent ==
    [][\A x \in SourceIds :
          (/\ x \in OwnedIds
           /\ flast.op = "select_source"
           /\ flast.arg = x
           /\ SelectSource(x))
          => /\ active_source' = active_source
             /\ url_override' = url_override
             /\ sources' = sources
             /\ flast'.emit = {}]_vars

\* select_source(x) ran twice in a row for an owned id that is not the
\* source "|init" picks
C10_Witness ==
    /\ fstate = "ok"
    /\ flast.op = "select_source"
    /\ flast.again
    /\ flast.err = None
    /\ flast.arg \in OwnedIds
    /\ sources[active_source].source_id = flast.arg
    /\ first_valid_download_source \notin {0, active_source}

\* C11: a constructed InstallerFile has exactly one User source among its
\* sources, whatever its descriptor was and whatever add_source added.
C11_ExactlyOneUserSource ==
    fstate = "ok" => Cardinality(ByClass(sources, "SourceUser")) = 1

\* C12: an InstallerFile never has two Cache sources among its sources,
\* whether they come from add_source or from a probe's _add_cached.
C12_AtMostOneCacheSource ==
    Cardinality(ByClass(sources, "SourceCache")) <= 1

\* C13: when a probe has added a Cache source to the file, a
\* select_source("|init") makes that Cache source the active source.
C13_InitSelectsCache ==
    [][(cache_source # 0 /\ SelectSource("|init"))
          => /\ active_source' = cache_source
             /\ sources'[active_source'].cls = "SourceCache"]_vars

\* the source "|init" is to pick when there is no Cache source: the first
\* Steam source, else the first unrestricted Download source, else the first
\* Download source, else the User source
InitChoice(f) ==
    IF ByClass(f.sources, "SourceSteam") # {}
    THEN First(ByClass(f.sources, "SourceSteam"))
    ELSE IF Unrestricted(f) # {} THEN First(Unrestricted(f))
    ELSE IF ByClass(f.sources, "SourceDownload") # {}
    THEN First(ByClass(f.sources, "SourceDownload"))
    ELSE f.user_source

\* C14: with no Cache source among the sources, a select_source("|init")
\* makes active the source that the priority order Steam, unrestricted
\* Download, Download, User picks, and no other.
C14_InitPriority ==
    [][(ByClass(sources, "SourceCache") = {} /\ SelectSource("|init"))
          => active_source' = InitChoice(File)]_vars

\* the sources known to be available
AvailableSources(f) ==
    {i \in 1..Len(f.sources) : f.sources[i].available = "True"}

\* the source "|auto_available" is to pick: the first unrestricted Download
\* source that is available, else the first available source
AutoChoice(f) ==
    IF Unrestricted(f) \cap AvailableSources(f) # {}
    THEN First(Unrestricted(f) \cap AvailableSources(f))
    ELSE First(AvailableSources(f))

\* C15: when some source is available, a select_source("|auto_available")
\* makes active the first unrestricted Download source that is available,
\* else the first available source; the source it makes active is available.
C15_AutoPicksAvailable ==
    [][(AvailableSources(File) # {} /\ SelectSource("|auto_available"))
          => /\ active_source' = AutoChoice(File)
             /\ sources'[active_source'].available = "True"]_vars

\* C16: when no source is available, a select_source("|auto_available")
\* ends in an error and leaves active_source as it was.
C16_AutoWithoutAvailableFails ==
    [][(AvailableSources(File) = {} /\ SelectSource("|auto_available"))
          => /\ flast'.err # None
             /\ active_source' = active_source]_vars

\* C17: select_source with an id that no owned source has, and that is not a
\* reserved id, raises no error and leaves the file in exactly the state that
\* select_source("|init") produces from the same starting state.
C17_UnknownIdFallsBackToInit ==
    [][SelectSource("nope")
          => LET r == select_source(File, "|init", RecursionLimit)
             IN  /\ flast'.err = None
                 /\ r.err = None
                 /\ SetFile(r.f)]_vars

\* select_source("nope") returned and, as "|init" does, made the cache source
\* the active one
C17_Witness ==
    /\ flast.op = "select_source"
    /\ flast.arg = "nope"
    /\ flast.err = None
    /\ ~flast.again
    /\ cache_source # 0
    /\ active_source = cache_source

\* C18: url is the override while one is set and the url of the active source
\* otherwise; every select_source call, whatever id it is given and however
\* it ends, clears the override, so that right after it url is the url of the
\* active source.
\* (the step of a call is found by the call it records in flast)
C18_SelectClearsOverride ==
    [][/\ (flast'.op = "url_override" /\ UrlOverride(flast'.arg))
              => file_url(File') = flast'.arg
       /\ (flast'.op = "select_source" /\ SelectSource(flast'.arg))
              => /\ url_override' = None
                 /\ active_source' # 0
                 /\ file_url(File') = sources'[active_source'].url]_vars

\* select_source with an unknown id replaced an override that was set
C18_Witness ==
    /\ flast.op = "select_source"
    /\ flast.arg = "nope"
    /\ flast.log = {"Overriding URL"}
    /\ url_override = None
    /\ file_url(File) = sources[active_source].url

\* C19: the source ids of the sources a file owns are pairwise distinct: a
\* requested id that collides with an existing one is stored under a new id.
C19_SourceIdsDistinct ==
    \A i, k \in 1..Len(sources) :
        i # k => sources[i].source_id # sources[k].source_id

\* C20: no source a file owns has an id that starts with '|', whatever ids the
\* descriptor keys (the first one included) or the add_source callers request.
C20_NoReservedIdOwned ==
    \A i \in 1..Len(sources) : sources[i].source_id \notin PipeIds

NonUserSources(f) == {i \in 1..Len(f.sources) : f.sources[i].cls # "SourceUser"}

\* C21: the multiple_sources flag of a file is true exactly when the file owns
\* more than one source that is not a User source, also after add_source and
\* after a probe added a Cache source.
C21_MultipleSourcesFlag ==
    fstate = "ok" => (multiple_sources <=> Cardinality(NonUserSources(File)) > 1)

\* the run, which nobody stopped, observed a transfer that completed in full
\* and has ended, and the control thread has run everything that was scheduled
FullDownloadSettled ==
    /\ run.op = "run_speedtest"
    /\ run.pc = "done"
    /\ run.temp = "memfile"
    /\ ~stop_request
    /\ idle = <<>>

\* C22: when run_speedtest probes a Download source whose transfer completes
\* in full inside the window and the file has no Cache source, then, once the
\* scheduled updates have run, the file owns exactly one new Cache source, it
\* is transient, cache_source refers to it, its available state is true, and
\* no later Download source was probed in that run.
C22_FullDownloadBecomesCache ==
    FullDownloadSettled
        => /\ Cardinality(ByClass(sources, "SourceCache")) = 1
           /\ cache_source \in ByClass(sources, "SourceCache")
           /\ sources[cache_source].temporary
           /\ available(sources[cache_source], fs) = "True"
           /\ transfers[Len(transfers)].full

\* the _error update of source src is scheduled
ErrorScheduled(queue, src) ==
    \E k \in 1..Len(queue) : queue[k].fn = "_error" /\ queue[k].src = src

\* C23: when the transfer of a probe never leaves the running state within
\* the window, the speed of the probed source becomes the sentinel false, and
\* run_speedtest goes on to probe the next Download source.
C23_TimeoutRecordsSentinel ==
    [][/\ (run.pc = "poll" /\ run.polls = 0 /\ Poll)
            => \/ sources'[run.list[run.i]].speed = "False"
               \/ ErrorScheduled(idle', run.list[run.i])
       /\ (/\ run.pc = "exit" /\ run.op = "run_speedtest" /\ run.polls = 0
           /\ ~stop_request /\ LoopExit)
            => run'.pc = "enter" /\ run'.i = run.i + 1]_vars

\* the transfers that are running
InFlight == {t \in 1..Len(transfers) : transfers[t].state = "running"}

\* C29: within one InstallerFile at most one transfer probe is in flight at
\* any time: run_speedtest does not start the transfer of the next Download
\* source while the transfer started for a previous source, also one abandoned
\* on timeout, is still running.
C29_OneTransferInFlight ==
    Cardinality(InFlight) <= 1

\* C30: once the stop request of the job that runs run_speedtest or
\* get_availability is set, the run begins the probe of no further Download
\* source, a speed probe in progress stops at its next poll checkpoint and
\* cancels its transfer, and the run ends without an exception reaching its
\* caller.
C30_StopEndsRunCleanly ==
    [][/\ (stop_request /\ run.pc = "enter") => run'.pc # "body"
       /\ (stop_request /\ run.pc = "poll" /\ Poll)
            => run'.pc = "returned" /\ InFlight' = {}
       /\ (stop_request /\ run.pc = "poll_exit" /\ PollExit)
            => run'.pc = "returned" /\ InFlight' = {}
       /\ (stop_request /\ run'.pc = "done") => run'.err = None]_vars

\* C24: check_hash on a file whose active source has a checksum
\* "algorithm:hex" raises an error to the caller when the checksum computed
\* for the destination file differs from the expected one, and then changes
\* neither the destination file nor any source; it raises nothing when the
\* checksums are equal or the active source has no checksum.
C24_CheckHashRaisesOnMismatch ==
    [][\A c \in Hashes :
          CheckHash(c)
              => /\ flast'.err # None
                     <=> /\ checksum(sources[active_source]) # None
                         /\ c # expected_hash(checksum(sources[active_source]))
                 /\ sources' = sources
                 /\ active_source' = active_source
                 /\ cache_source' = cache_source
                 /\ fs' = fs]_vars

\* check_hash raised on a destination file whose checksum is not the expected
\* one
C24_Witness ==
    /\ flast.op = "check_hash"
    /\ flast.err = "NameError"
    /\ checksum(sources[active_source]) # None
    /\ flast.arg # expected_hash(checksum(sources[active_source]))

-----------------------------------------------------------------------------
(* Properties of copy()                                                     *)

\* what the claim names of the original
OrigView == <<sources, active_source, url_override, dest_file_override>>

\* and of the copy
CopyView ==
    <<CopyFile.sources, copy.file.active_source, copy.file.url_override,
      copy.dest_file_override>>

\* C25: after c = f.copy(), a select_source, url_override, dest_file assignment
\* or add_source on c (a step that changes c) leaves the sources, the active
\* source, the url override and the destination override of f unchanged, and
\* such an operation on f (a step that is not on c) leaves those of c
\* unchanged.
C25_CopyIsIndependent ==
    [][/\ copy' # copy => OrigView' = OrigView
       /\ (copy.made /\ copy' = copy) => CopyView' = CopyView]_vars

\* the copy and the original have both been changed since the copy was made
C25_Witness ==
    /\ copy.made
    /\ Len(copy.file.sources) > Len(sources)
    /\ copy.file.url_override # url_override
    /\ copy.dest_file_override # dest_file_override
    /\ copy.file.active_source # active_source
    /\ flast.op = "select_source"

-----------------------------------------------------------------------------
(* Properties of IdleTask and schedule_at_idle                              *)

\* C26: a function scheduled with schedule_at_idle and never unscheduled is
\* never run a second time, and it is eventually run, also when it raises.
C26_RunsExactlyOnce ==
    /\ [](\A k \in 1..MaxTasks : tasks[k].unscheduled = 0 => tasks[k].runs <= 1)
    /\ \A k \in 1..MaxTasks :
          (tasks[k].pc # "none")
              ~> (tasks[k].runs = 1 \/ tasks[k].unscheduled > 0)

\* a raising function was run once, was never unscheduled and its source is
\* gone
C26_Witness ==
    \E k \in 1..MaxTasks :
        /\ tasks[k].pc = "returned" /\ tasks[k].raises
        /\ tasks[k].runs = 1 /\ tasks[k].unscheduled = 0
        /\ tasks[k].id \notin glib.sources

\* C27: an unschedule() before the function has run prevents it from ever
\* running; an unschedule() that is repeated, or made after the function has
\* run, changes no state and removes no source.
C27_UnscheduleContract ==
    /\ [](\A k \in 1..MaxTasks : tasks[k].cancelled => tasks[k].runs = 0)
    /\ [][\A k \in 1..MaxTasks :
            (Unschedule(k) /\ (tasks[k].unscheduled > 0 \/ tasks[k].runs > 0))
                => /\ glib' = glib
                   /\ tasks'[k].source_id = tasks[k].source_id]_vars

-----------------------------------------------------------------------------
(* Properties of the sources lock                                           *)

\* thread t is reading or writing the sources collection
Touching(t) ==
    /\ readers[t].pc = "access"
    /\ sections(readers[t].op)[readers[t].i].rw # "none"

\* C28: every read and every write of the sources collection is made while
\* the thread holds the sources lock, so no thread reads the collection while
\* another thread is appending to it.
C28_SourcesUnderLock ==
    /\ \A t \in Threads : Touching(t) => sources_lock = t
    /\ \A t, u \in Threads :
          (t # u /\ Touching(t) /\ Touching(u))
              => sections(readers[t].op)[readers[t].i].rw # "write"

\* C37: for every interleaving of a background thread calling
\* schedule_at_idle and the main loop running the function, once the function
\* has run the returned IdleTask is not connected.
C37_RunTaskIsDisconnected ==
    \A k \in 1..MaxTasks :
        (tasks[k].pc = "returned" /\ tasks[k].runs > 0)
            => ~is_connected(tasks[k])

\* C38: no operation tries to acquire the sources lock while its own thread
\* holds it, so no thread waits for a lock that only it can release.
C38_NoReentrantAcquire ==
    \A t \in Threads : ~(readers[t].pc = "wait" /\ sources_lock = t)

\* C40: directly after c = f.copy(), the active source of c has the source_id
\* of the active source of f, c owns sources with the same ids as f, and the
\* url and the destination of c are those of f.
C40_CopyDenotesSameChoice ==
    [][Copy =>
          LET f == File
              c == copy'.file
          IN  /\ IdsOf(c.sources) = IdsOf(f.sources)
              /\ c.active_source # 0
              /\ c.sources[c.active_source].source_id
                     = f.sources[f.active_source].source_id
              /\ file_url(c) = file_url(f)
              /\ copy'.dest_file_override = dest_file_override]_vars

-----------------------------------------------------------------------------
(* Properties of the probe runs, continued                                  *)

\* C31: a run schedules processing-start before any update and
\* processing-stop after the updates (only notifications follow it), and however the run ends the processing-start
\* of a started run is followed by a processing-stop.
C31_StartFollowedByStop ==
    /\ [](\A k \in 1..Len(idle) :
             /\ (idle[k].fn = "emit" /\ idle[k].arg = "processing-start") => k = 1
             /\ (idle[k].fn = "emit" /\ idle[k].arg = "processing-stop")
                    => \A j \in (k + 1)..Len(idle) : idle[j].fn = "emit")
    /\ (run.pc = "enter" /\ run.i = 1)
           ~> (\E k \in 1..Len(idle) :
                  idle[k].fn = "emit" /\ idle[k].arg = "processing-stop")

\* the transfer that probed source src
TransferOf(src) ==
    CHOOSE t \in 1..Len(transfers) : transfers[t].source = src

\* the transfer of the probe in progress ended cancelled or in error
LastFailed ==
    /\ run.op = "run_speedtest"
    /\ transfers # <<>>
    /\ transfers[Len(transfers)].state \in {"cancelled", "error"}

\* C32: when the transfer of a speed probe ends cancelled or in error inside
\* the window, the update run on the control thread sets the speed of the
\* source to false, its available state to false if it was true, and its
\* error and error code to those of the transfer; no error reaches the caller
\* of run_speedtest, and the run goes on with the next source.
C32_FailedProbeIsRecorded ==
    /\ [][(RunScheduled /\ Head(idle).fn = "_error") =>
             LET src == Head(idle).src
                 t == transfers[TransferOf(src)]
             IN  /\ sources'[src].speed = "False"
                 /\ sources'[src].available =
                        IF sources[src].available = "True" THEN "False"
                        ELSE sources[src].available
                 /\ sources'[src].error = t.error
                 /\ sources'[src].error_code = t.error_code]_vars
    /\ [](LastFailed => run.err = None)
    /\ [][(LastFailed /\ run.pc = "exit" /\ ~stop_request /\ run' # run)
              => (run'.pc = "enter" /\ run'.i = run.i + 1)]_vars

\* what the reachability check of a URL finds
Reachable(url) ==
    IF url.scheme = "file"
    THEN IF url.path \in fs THEN "True" ELSE "False"
    ELSE IF url \in Unavailable THEN "False" ELSE "True"

\* C33: when an availability run that was not stopped has ended and its
\* scheduled updates have run, the available state of every Download source
\* it checked is the result of the reachability check of its URL, and each
\* update schedules one availability notification for its source.
C33_AvailabilityRecorded ==
    /\ []((/\ run.op = "get_availability" /\ run.pc = "done"
           /\ ~stop_request /\ idle = <<>>)
             => \A k \in 1..Len(run.list) :
                    sources[run.list[k]].available
                        = Reachable(sources[run.list[k]].url))
    /\ [][(RunScheduled /\ Head(idle).fn = "_change")
             => idle'[Len(idle')] = Task("emit", Head(idle).src,
                                         "new-availability-measured")]_vars

-----------------------------------------------------------------------------
(* Properties of InstallerFile, continued                                   *)

\* C39: for every provider p that providers reports, change_provider(p) ends
\* without error and default_provider is p afterwards, whatever source was
\* active before.
C39_ReportedProviderCanBeChosen ==
    [][(/\ flast'.op = "change_provider"
        /\ ChangeProvider(flast'.arg)
        /\ flast'.arg \in providers(File))
          => /\ flast'.err = None
             /\ default_provider(File') = flast'.arg]_vars

\* the Download sources of the file other than source i
OtherDownloads(i) == ByClass(sources, "SourceDownload") \ {i}

\* C34: once a measurement of Download source S has been delivered on the
\* control thread, every other Download source on the domain of S has that
\* speed and the sources on other domains keep theirs, in the file of S and
\* in a file that receives the measurement
C34_SpeedIsFederated ==
    [][/\ \A i \in 1..Len(sources) :
            SpeedSuccess(i) =>
                \A j \in OtherDownloads(i) :
                    IF sources[j].url.domain = sources[i].url.domain
                    THEN sources'[j].speed = MeasuredSpeed
                    ELSE sources'[j].speed = sources[j].speed
       /\ (flast'.op = "on_speed_measured" /\ OnSpeedMeasured(flast'.arg)) =>
                \A j \in ByClass(sources, "SourceDownload") :
                    IF sources[j].url.domain = flast'.arg.domain
                    THEN sources'[j].speed = MeasuredSpeed
                    ELSE sources'[j].speed = sources[j].speed]_vars

\* the Download sources whose available state is true
AvailableDownloadSources ==
    {i \in ByClass(sources, "SourceDownload") : sources[i].available = "True"}

\* C35: available_downloads is the number of Download sources whose
\* available state is true, User and Cache sources are not counted, and
\* is_ready("download") is true exactly when there is such a source
C35_CountsDownloadSourcesOnly ==
    fstate = "ok" =>
        /\ available_downloads(File, fs) = Cardinality(AvailableDownloadSources)
        /\ is_ready(File, "download", fs) <=> (AvailableDownloadSources # {})

-----------------------------------------------------------------------------
(* Properties of the job scheduler, continued                              *)

\* C36: the remove_job of a job's completion callback takes only that job
\* out of the map: a job submitted later under the same name stays in the
\* map and its stop token is not set by this call
C36_CallbackRemovesOwnJobOnly ==
    [][(th["ctl"].pc = "cb_rm" /\ th'["ctl"] # th["ctl"])
          => /\ \A k \in DOMAIN active :
                   active[k] # th["ctl"].own => k \in DOMAIN active'
             /\ th'["ctl"].pc = "rj_set" => th'["ctl"].ref = th["ctl"].own]_vars

====
